---- MODULE Spec2Model ----
(***************************************************************************)
(* AlphaStack DCF tool (src/app3.py): one press of the "Generate           *)
(* Valuation" button, and the peer scan get_yahoo_peers.                   *)
(*                                                                         *)
(* Numbers.  The program computes in floating point.  The model computes   *)
(* over exact rationals <<n, d>> (d > 0, lowest terms), extended with the  *)
(* three IEEE specials the numpy scalars of the program can produce:       *)
(*   <<1, 0>> = +inf,  <<-1, 0>> = -inf,  <<0, 0>> = nan.                  *)
(* A division of plain Python floats by zero raises ZeroDivisionError; a   *)
(* division whose left operand is a numpy scalar yields inf / nan.         *)
(* Slider positions are drawn in whole percent.                            *)
(***************************************************************************)
EXTENDS Integers, Sequences, FiniteSets, TLC

----------------------------------------------------------------------------
(* Exact arithmetic *)

Abs(n) == IF n < 0 THEN -n ELSE n

Sgn(n) == IF n > 0 THEN 1 ELSE IF n < 0 THEN -1 ELSE 0

RECURSIVE GCD(_, _)
GCD(a, b) == IF b = 0 THEN a ELSE GCD(b, a % b)

\* n/d in lowest terms with a positive denominator; d = 0 gives a special.
Norm(n, d) ==
    IF d = 0 THEN <<Sgn(n), 0>>
    ELSE LET g == GCD(Abs(n), Abs(d))
             s == Sgn(d)
         IN  <<(s * n) \div g, (s * d) \div g>>

Num(k)  == <<k, 1>>
Zero    == <<0, 1>>
One     == <<1, 1>>
Hundred == <<100, 1>>
Inf     == <<1, 0>>
NegInf  == <<-1, 0>>
NaN     == <<0, 0>>
None    == <<>>

IsFinite(x) == x[2] # 0

Neg(x) == <<-x[1], x[2]>>

Add(x, y) ==
    IF x[2] = 0 /\ y[2] = 0
    THEN (IF x[1] = y[1] THEN x ELSE NaN)
    ELSE IF x[2] = 0 THEN x
    ELSE IF y[2] = 0 THEN y
    ELSE LET g == GCD(x[2], y[2])
         IN  Norm(x[1] * (y[2] \div g) + y[1] * (x[2] \div g), (x[2] \div g) * y[2])

Sub(x, y) == Add(x, Neg(y))

Mul(x, y) ==
    IF x[2] = 0 \/ y[2] = 0
    THEN <<Sgn(x[1]) * Sgn(y[1]), 0>>
    ELSE LET g1 == GCD(Abs(x[1]), y[2])
             g2 == GCD(Abs(y[1]), x[2])
         IN  Norm((x[1] \div g1) * (y[1] \div g2), (x[2] \div g2) * (y[2] \div g1))

\* IEEE division (numpy scalars): x/0 is inf, -inf or nan, never an error.
DivNp(x, y) ==
    IF y[2] = 0
    THEN (IF x[2] = 0 THEN NaN ELSE Zero)
    ELSE IF y[1] = 0 THEN <<Sgn(x[1]), 0>>
    ELSE Mul(x, <<Sgn(y[1]) * y[2], Abs(y[1])>>)

\* x > y and x >= y as floats compare: anything with nan is FALSE.
Gt(x, y) == x # NaN /\ y # NaN /\ x # y /\
            (IF x[2] = 0 THEN x = Inf
             ELSE IF y[2] = 0 THEN y = NegInf
             ELSE x[1] * y[2] > y[1] * x[2])

Lt(x, y) == Gt(y, x)

AbsQ(x) == <<Abs(x[1]), x[2]>>

RECURSIVE Pow(_, _)
Pow(x, k) == IF k = 0 THEN One ELSE Mul(x, Pow(x, k - 1))

\* round(x, 2): to the nearest hundredth, ties to the even hundredth;
\* inf and nan round to themselves.  The hundredths are taken by long
\* division, one decimal digit at a time.
Round2(x) ==
    IF x[2] = 0 THEN x
    ELSE LET n  == Abs(x[1])
             d  == x[2]
             r0 == n % d
             r1 == (r0 * 10) % d
             r2 == (r1 * 10) % d
             f  == (n \div d) * 100 + ((r0 * 10) \div d) * 10 + ((r1 * 10) \div d)
             q  == IF 2 * r2 > d THEN f + 1
                   ELSE IF 2 * r2 < d THEN f
                   ELSE IF f % 2 = 0 THEN f ELSE f + 1
         IN  Norm(Sgn(x[1]) * q, 100)

\* p percent as a fraction: p/100.
Pct(p) == Norm(p, 100)

----------------------------------------------------------------------------
(* Bounds of the model and the input sets drawn from *)

\* forecast_years is drawn from 1..MaxYears (the slider allows 1..10).
MaxYears == 3

\* get_yahoo_peers is checked on every page of at most MaxSyms symbols.
MaxSyms == 6

\* len(peers) >= 5: break
PeerLimit == 5

Sym(a, b) == <<a, ".", b>>
TCS_NS == <<"T", "C", "S", ".", "N", "S">>
AAPL   == <<"A", "A", "P", "L">>
PeerNames   == <<"A", "B", "C", "D", "E", "F">>
DottedPeers == {Sym(PeerNames[k], "N") : k \in DOMAIN PeerNames}
Symbols == {TCS_NS, AAPL} \cup DottedPeers
Tickers == {TCS_NS, AAPL}

\* get_yahoo_peers reads a symbol only to compare it with the ticker and with
\* other symbols and to look for a '.', so a page stands for every page that
\* renames its peer symbols: pages are drawn with the peer symbols first
\* occurring in the order of PeerNames.
InPeerOrder(s) ==
    \A i \in DOMAIN s : \A k \in 2..Len(PeerNames) :
        s[i] = Sym(PeerNames[k], "N") =>
            \E j \in 1..(i - 1) : s[j] = Sym(PeerNames[k - 1], "N")

\* What requests.get + re.findall yield: the symbols of the page in page
\* order, or an exception.
PageOf(syms) == [ok |-> TRUE, syms |-> syms]
PageError    == [ok |-> FALSE, syms |-> <<>>]
SomePages == {PageOf(<<>>),
              PageOf(<<TCS_NS, AAPL, Sym("A", "N"), Sym("A", "N"), Sym("B", "N")>>),
              PageError}

\* Uploaded financials, in file order (rows need not be sorted by Year).
RowOf(y, rev, e, cx, dp, w, c, d, sh) ==
    [Year |-> y, Revenue |-> rev, EBIT |-> e, CapEx |-> cx, Depreciation |-> dp,
     dWC |-> w, Cash |-> c, Debt |-> d, Shares |-> sh]
FileA == <<RowOf(2024, 1000, 250, 100, 50, -20, 200, 100, 50),
           RowOf(2023, 800, 160, 81, 40, -16, 150, 120, 50)>>
FileB == <<RowOf(2024, 1000, 200, 100, 50, -20, 200, 100, 0)>>
FileC == <<RowOf(2024, 1000, 200, 100, 50, -20, 200, 100, -50)>>
NoFile == <<>>
Files == {NoFile, FileA, FileB, FileC}

\* stock.info as the data provider returns it: a dict, keys may be absent.
InfoFull  == [totalRevenue |-> 1002, totalCash |-> 200, totalDebt |-> 100,
              sharesOutstanding |-> 50, trailingEps |-> 3, trailingPE |-> 20,
              dividendRate |-> 2]
InfoEmpty == [sector |-> 0]
NoInfo    == [unfetched |-> 0]
InfoZeroShares == [totalRevenue |-> 1000, sharesOutstanding |-> 0, trailingPE |-> 20]
InfoNegShares  == [totalRevenue |-> 1000, sharesOutstanding |-> -50, trailingPE |-> 20]
Infos == {InfoFull, InfoEmpty, InfoZeroShares, InfoNegShares}

\* hist["Close"].iloc[-1]: the last close of the past year, a positive price.
Prices == {50, 60}

\* yf.download(ticker, start, end): no rows, or the first and last close.
CrashOf(p0, p1) == [fetched |-> TRUE, empty |-> FALSE, first |-> p0, last |-> p1]
CrashEmpty == [fetched |-> TRUE, empty |-> TRUE, first |-> 0, last |-> 0]
NoCrash    == [fetched |-> FALSE, empty |-> TRUE, first |-> 0, last |-> 0]
Crashes == {CrashEmpty, CrashOf(100, 70), CrashOf(0, 70)}

Models == {"DCF", "Relative (P/E)", "Dividend Discount (DDM)"}
StressEvents == {"None", "COVID-19 (2020)", "2008 Financial Crisis",
                 "Great Depression", "Scam 1992"}
evts == [e \in StressEvents \ {"None"} |->
            CASE e = "COVID-19 (2020)"       -> <<"2020-02-15", "2020-03-23">>
              [] e = "2008 Financial Crisis" -> <<"2008-09-01", "2008-10-15">>
              [] e = "Great Depression"      -> <<"1929-09-01", "1930-06-01">>
              [] e = "Scam 1992"             -> <<"1992-04-01", "1992-05-15">>]

\* Slider positions, in whole percent, inside each slider's range.
GrowthRates   == {0, 10}
Margins       == {20, 30}
TaxRates      == {25}
DiscountRates == {0, 25}
TerminalRates == {0, 5}

----------------------------------------------------------------------------
(* State *)

VARIABLES
    ticker, stress_event, model, df_fin,           \* widgets and the upload
    capex_ratio, dep_ratio, wc_ratio,              \* historical ratios, or None
    cash_override, debt_override, shares_override, \* latest uploaded year, or None
    revenue_growth, ebit_margin, terminal_growth,  \* sliders, in percent
    tax_rate, discount_rate, forecast_years,
    pc,                                            \* position in the handler
    info, price,                                   \* market data
    revenue, ebit, cash, debt, shares,             \* the snapshot valued
    capex, dep, wc,
    base, rows, tv, dtv, ev, eqv, iv,              \* valuation
    pct, tag,                                      \* verdict
    page, peers,                                   \* peer comparison
    crash, drop, sim,                              \* stress test
    out,                                           \* what the page shows, in order
    ran,                                           \* stages completed, in order
    raised                                         \* the exception caught, or NoError

hist == <<capex_ratio, dep_ratio, wc_ratio, cash_override, debt_override,
          shares_override>>
inputs == <<ticker, stress_event, model, df_fin, hist, revenue_growth, ebit_margin,
            terminal_growth, tax_rate, discount_rate, forecast_years>>
snapshot == <<revenue, ebit, cash, debt, shares, capex, dep, wc>>
valuation == <<base, rows, tv, dtv, ev, eqv, iv>>
vars == <<inputs, pc, info, price, snapshot, valuation, pct, tag, page, peers,
          crash, drop, sim, out, ran, raised>>

----------------------------------------------------------------------------
(* get_yahoo_peers *)

HasDot(s) == \E i \in DOMAIN s : s[i] = "."

InSeq(x, s) == \E i \in DOMAIN s : s[i] = x

\* The scan with the limit tested as len(peers) > 5.
RECURSIVE peers_loop_late_break(_, _, _, _)
peers_loop_late_break(t, syms, i, acc) ==
    IF i > Len(syms) THEN acc
    ELSE LET s  == syms[i]
             a2 == IF s # t /\ HasDot(s) /\ ~InSeq(s, acc)
                   THEN Append(acc, s) ELSE acc
         IN  IF Len(a2) > PeerLimit THEN a2
             ELSE peers_loop_late_break(t, syms, i + 1, a2)

\* for s in syms: ... if len(peers)>=5: break
RECURSIVE peers_loop(_, _, _, _)
peers_loop(t, syms, i, acc) ==
    IF i > Len(syms) THEN acc
    ELSE LET s  == syms[i]
             a2 == IF s # t /\ HasDot(s) /\ ~InSeq(s, acc)
                   THEN Append(acc, s) ELSE acc
         IN  IF Len(a2) >= PeerLimit THEN a2
             ELSE peers_loop(t, syms, i + 1, a2)

\* One call; st.cache_data only replays the result of an earlier call with
\* the same ticker.
get_yahoo_peers(t, pg) ==
    IF pg.ok THEN peers_loop(t, pg.syms, 1, <<>>) ELSE <<>>

----------------------------------------------------------------------------
(* The upload: df_fin sorted by Year, the historical ratios, the overrides *)

RECURSIVE InsertByYear(_, _)
InsertByYear(r, s) ==
    IF s = <<>> THEN <<r>>
    ELSE IF r.Year < Head(s).Year THEN <<r>> \o s
    ELSE <<Head(s)>> \o InsertByYear(r, Tail(s))

RECURSIVE sort_values(_)
sort_values(s) ==
    IF s = <<>> THEN <<>> ELSE InsertByYear(Head(s), sort_values(Tail(s)))

uploaded == df_fin # NoFile
sorted   == sort_values(df_fin)
latest   == sorted[Len(sorted)]

RECURSIVE SumSeq(_)
SumSeq(s) == IF s = <<>> THEN Zero ELSE Add(Head(s), SumSeq(Tail(s)))

\* (df[col] / df["Revenue"]).mean() * 100
MeanRatio(col) ==
    Mul(DivNp(SumSeq([i \in DOMAIN sorted |->
                        DivNp(Num(sorted[i][col]), Num(sorted[i].Revenue))]),
              Num(Len(sorted))),
        Hundred)

\* if uploaded: ... else: everything None
DeriveHistory ==
    IF uploaded
    THEN /\ capex_ratio = MeanRatio("CapEx")
         /\ dep_ratio = MeanRatio("Depreciation")
         /\ wc_ratio = MeanRatio("dWC")
         /\ cash_override = Num(latest.Cash)
         /\ debt_override = Num(latest.Debt)
         /\ shares_override = Num(latest.Shares)
    ELSE /\ capex_ratio = None /\ dep_ratio = None /\ wc_ratio = None
         /\ cash_override = None /\ debt_override = None /\ shares_override = None

----------------------------------------------------------------------------
(* Snapshot: latest overrides or the provider's values *)

\* info.get(key, default); a missing key with no default is None.
Get(d, key, default) == IF key \in DOMAIN d THEN Num(d[key]) ELSE default

\* Python's `a or b`: b when a is None or 0.
Falsy(x) == x = None \/ x = Zero
Or(a, b) == IF Falsy(a) THEN b ELSE a

\* An EBIT read from the latest uploaded year instead of margin x revenue.
ebit_from_upload(rev) ==
    IF uploaded THEN Num(latest.EBIT) ELSE Mul(rev, Pct(ebit_margin))

\* ebit = revenue*(ebit_margin/100)
ebit_of(rev) == Mul(rev, Pct(ebit_margin))

\* Use latest overrides or yfinance fallbacks
TakeSnapshot(i) ==
    /\ revenue' = IF uploaded THEN Num(latest.Revenue)
                  ELSE Get(i, "totalRevenue", Num(1000))
    /\ ebit'   = ebit_of(revenue')
    /\ cash'   = IF uploaded THEN cash_override ELSE Get(i, "totalCash", Zero)
    /\ debt'   = IF uploaded THEN debt_override ELSE Get(i, "totalDebt", Zero)
    /\ shares' = IF uploaded THEN shares_override ELSE Get(i, "sharesOutstanding", One)
    /\ capex'  = IF uploaded THEN Mul(revenue', DivNp(capex_ratio, Hundred)) ELSE Zero
    /\ dep'    = IF uploaded THEN Mul(revenue', DivNp(dep_ratio, Hundred)) ELSE Zero
    /\ wc'     = IF uploaded THEN Mul(revenue', DivNp(wc_ratio, Hundred)) ELSE Zero

\* A value read from the upload is a numpy scalar, one read from stock.info or
\* a slider a plain Python number; numpy arithmetic is contagious.
IsNumpy == uploaded

NoError           == ""
ZeroDivisionError == "ZeroDivisionError"
ExternalError     == "ExternalError"

----------------------------------------------------------------------------
(* run_dcf *)

tax   == Mul(ebit, Pct(tax_rate))
nopat == Sub(ebit, tax)

growth   == Add(One, Pct(revenue_growth))
discount == Add(One, Pct(discount_rate))

\* proj = base*((1+revenue_growth/100)**y); disc = proj/((1+discount_rate/100)**y)
proj_at(b, y) == Mul(b, Pow(growth, y))
disc_at(b, y) == DivNp(proj_at(b, y), Pow(discount, y))

\* rows.append((y,round(proj,2),round(disc,2)))
dcf_row(b, y) == <<y, Round2(proj_at(b, y)), Round2(disc_at(b, y))>>

\* The loop compounding each year off the previous row's displayed value.
RECURSIVE dcf_rows_chained(_, _, _)
dcf_rows_chained(b, y, acc) ==
    IF y > forecast_years THEN acc
    ELSE LET prev == IF acc = <<>> THEN b ELSE acc[Len(acc)][2]
             proj == Mul(prev, growth)
         IN  dcf_rows_chained(b, y + 1,
                 Append(acc, <<y, Round2(proj), Round2(DivNp(proj, Pow(discount, y)))>>))

\* for y in range(1,forecast_years+1)
RECURSIVE dcf_rows(_, _, _)
dcf_rows(b, y, acc) ==
    IF y > forecast_years THEN acc
    ELSE dcf_rows(b, y + 1, Append(acc, dcf_row(b, y)))

\* last=rows[-1][1]
last_of(rs) == rs[Len(rs)][2]

\* df["Disc FCF"].sum()
disc_sum(rs) == SumSeq([i \in DOMAIN rs |-> rs[i][3]])

\* (discount_rate/100)-(terminal_growth/100)
spread == Sub(Pct(discount_rate), Pct(terminal_growth))

\* tv = (last*(1+terminal_growth/100))/spread with spread = 0.  Without an
\* upload `last` is a plain Python float and the division raises.  With an
\* upload `last` is round() of a numpy scalar: a numpy scalar where numpy's
\* scalars implement __round__ (the division then yields inf or nan), a Python
\* float where they do not (the division then raises); both are modelled.
TvMayRaise  == spread = Zero
TvMayReturn == spread # Zero \/ IsNumpy

----------------------------------------------------------------------------
(* run_pe, run_ddm *)

\* info.get(key): a missing key is None.
GetOpt(d, key) == Get(d, key, None)

\* info.get("trailingEps") or info.get("forwardEps")
known_eps == Or(GetOpt(info, "trailingEps"), GetOpt(info, "forwardEps"))

\* ebit/shares is evaluated only when neither EPS is known.
EpsRaises == Falsy(known_eps) /\ ~IsNumpy /\ shares = Zero

\* info.get("dividendRate") or 0
dividend == Or(GetOpt(info, "dividendRate"), Zero)

----------------------------------------------------------------------------
(* Verdict and stress arithmetic *)

\* pct=(iv-price)/price*100
percent_difference(v, p) == Mul(DivNp(Sub(v, p), p), Hundred)

\* tag="Undervalued" if pct>0 else "Overvalued"
verdict_tag(d) == IF Gt(d, Zero) THEN "Undervalued" ELSE "Overvalued"

\* The move measured against the end price.
stress_drop_on_end(p0, p1) == Mul(DivNp(Sub(p1, p0), p1), Hundred)

\* drop=(p1-p0)/p0*100
stress_drop(p0, p1) == Mul(DivNp(Sub(p1, p0), p0), Hundred)

\* sim=price*(1+drop/100)
stress_sim(p, d) == Mul(p, Add(One, DivNp(d, Hundred)))

----------------------------------------------------------------------------
(* The button handler, stage by stage *)

StageOrder == <<"fetch", "valuate", "show", "chart", "peers", "stress">>

\* A handler that reports the error and goes on to the stress test.
Except_then_stress(shown, e) ==
    /\ out' = Append(shown, "error")
    /\ raised' = e
    /\ pc' = "stress"

\* except Exception as e: st.error(f"Error: {e}")
Except(shown, e) ==
    /\ out' = Append(shown, "error")
    /\ raised' = e
    /\ pc' = "done"

Done(stage, shown) ==
    /\ out' = shown
    /\ ran' = Append(ran, stage)

Init ==
    /\ ticker = TCS_NS
    /\ stress_event \in StressEvents
    /\ model \in Models
    /\ df_fin \in Files
    /\ DeriveHistory
    /\ revenue_growth \in GrowthRates
    /\ ebit_margin \in Margins
    /\ terminal_growth \in TerminalRates
    /\ tax_rate \in TaxRates
    /\ discount_rate \in DiscountRates
    /\ forecast_years \in 1..MaxYears
    /\ pc = "idle"
    /\ info = NoInfo
    /\ price = None
    /\ revenue = None /\ ebit = None /\ cash = None /\ debt = None
    /\ shares = None /\ capex = None /\ dep = None /\ wc = None
    /\ base = None /\ rows = <<>> /\ tv = None /\ dtv = None
    /\ ev = None /\ eqv = None /\ iv = None
    /\ pct = None /\ tag = ""
    /\ page = PageError /\ peers = <<>>
    /\ crash = NoCrash /\ drop = None /\ sim = None
    /\ out = <<>> /\ ran = <<>> /\ raised = NoError

\* if st.button("Generate Valuation"):
Press ==
    /\ pc = "idle"
    /\ pc' = "fetch"
    /\ UNCHANGED <<inputs, info, price, snapshot, valuation, pct, tag, page,
                   peers, crash, drop, sim, out, ran, raised>>

\* Pull market data, show the snapshot.
FetchOk ==
    /\ pc = "fetch"
    /\ \E i \in Infos, p \in Prices :
         /\ info' = i
         /\ price' = Num(p)
         /\ TakeSnapshot(i)
    /\ Done("fetch", Append(out, "snapshot"))
    /\ pc' = "valuate"
    /\ UNCHANGED <<inputs, valuation, pct, tag, page, peers, crash, drop,
                   sim, raised>>

\* The provider is unreachable, or the price history is empty.
FetchRaise ==
    /\ pc = "fetch"
    /\ Except(out, ExternalError)
    /\ UNCHANGED <<inputs, info, price, snapshot, valuation, pct, tag, page,
                   peers, crash, drop, sim, ran>>

\* run_dcf up to st.dataframe(df): base, the rows, the table on the page.
DcfTable ==
    /\ base' = Sub(Sub(Add(nopat, dep), capex), wc)
    /\ rows' = dcf_rows(base', 1, <<>>)

\* model == "DCF": run_dcf returns ev, eqv, eqv/shares.
RunDcfOk ==
    /\ pc = "valuate"
    /\ model = "DCF"
    /\ TvMayReturn
    /\ DcfTable
    /\ Done("valuate", Append(out, "dcf_table"))
    /\ tv'  = DivNp(Mul(last_of(rows'), Add(One, Pct(terminal_growth))), spread)
    /\ dtv' = DivNp(tv', Pow(discount, forecast_years))
    /\ ev'  = Add(disc_sum(rows'), dtv')
    /\ eqv' = Sub(Add(ev', cash), debt)
    /\ iv'  = DivNp(eqv', shares)
    /\ pc' = "show"
    /\ UNCHANGED <<inputs, info, price, snapshot, pct, tag, page, peers,
                   crash, drop, sim, raised>>

\* model == "DCF": the terminal-value division raises after the table is shown.
RunDcfRaise ==
    /\ pc = "valuate"
    /\ model = "DCF"
    /\ TvMayRaise
    /\ DcfTable
    /\ Except(Append(out, "dcf_table"), ZeroDivisionError)
    /\ UNCHANGED <<inputs, info, price, snapshot, tv, dtv, ev, eqv, iv, pct,
                   tag, page, peers, crash, drop, sim, ran>>

\* model == "Relative (P/E)"
RunPeOk ==
    /\ pc = "valuate"
    /\ model = "Relative (P/E)"
    /\ ~EpsRaises
    /\ iv' = Mul(Or(known_eps, DivNp(ebit, shares)), Or(GetOpt(info, "trailingPE"), Zero))
    /\ Done("valuate", Append(out, "pe_model"))
    /\ pc' = "show"
    /\ UNCHANGED <<inputs, info, price, snapshot, base, rows, tv, dtv, ev,
                   eqv, pct, tag, page, peers, crash, drop, sim, raised>>

RunPeRaise ==
    /\ pc = "valuate"
    /\ model = "Relative (P/E)"
    /\ EpsRaises
    /\ Except(out, ZeroDivisionError)
    /\ UNCHANGED <<inputs, info, price, snapshot, valuation, pct, tag, page,
                   peers, crash, drop, sim, ran>>

\* model == "Dividend Discount (DDM)"
RunDdm ==
    /\ pc = "valuate"
    /\ model = "Dividend Discount (DDM)"
    /\ IF dividend # Zero /\ Gt(spread, Zero)
       THEN /\ iv' = DivNp(dividend, spread)
            /\ Done("valuate", Append(out, "ddm_model"))
       ELSE /\ iv' = None
            /\ Done("valuate", Append(out, "warning"))
    /\ pc' = "show"
    /\ UNCHANGED <<inputs, info, price, snapshot, base, rows, tv, dtv, ev,
                   eqv, pct, tag, page, peers, crash, drop, sim, raised>>

\* Show results
Show ==
    /\ pc = "show"
    /\ IF iv # None
       THEN /\ pct' = percent_difference(iv, price)
            /\ tag' = verdict_tag(pct')
            /\ Done("show", out \o (IF ev # None THEN <<"ev", "eqv">> ELSE <<>>)
                                \o <<"iv", "verdict">>)
       ELSE /\ Done("show", out)
            /\ UNCHANGED <<pct, tag>>
    /\ pc' = "chart"
    /\ UNCHANGED <<inputs, info, price, snapshot, valuation, page, peers,
                   crash, drop, sim, raised>>

\* Price Chart
Chart ==
    /\ pc = "chart"
    /\ Done("chart", Append(out, "chart"))
    /\ pc' = "peers"
    /\ UNCHANGED <<inputs, info, price, snapshot, valuation, pct, tag, page,
                   peers, crash, drop, sim, raised>>

\* Peer Comparison
PeersOk ==
    /\ pc = "peers"
    /\ \E pg \in SomePages :
         /\ page' = pg
         /\ peers' = get_yahoo_peers(ticker, pg)
    /\ Done("peers", out \o <<"peers_header">>
                         \o (IF peers' # <<>> THEN <<"peers_table">> ELSE <<"no_peers">>))
    /\ pc' = "stress"
    /\ UNCHANGED <<inputs, info, price, snapshot, valuation, pct, tag, crash,
                   drop, sim, raised>>

\* yf.Ticker(p).info fails for one of the peers found.
PeersRaise ==
    /\ pc = "peers"
    /\ \E pg \in SomePages :
         /\ page' = pg
         /\ peers' = get_yahoo_peers(ticker, pg)
    /\ peers' # <<>>
    /\ Except(Append(out, "peers_header"), ExternalError)
    /\ UNCHANGED <<inputs, info, price, snapshot, valuation, pct, tag, crash,
                   drop, sim, ran>>

\* Stress Test: no event selected.
StressNone ==
    /\ pc = "stress"
    /\ stress_event = "None"
    /\ Done("stress", out)
    /\ pc' = "done"
    /\ UNCHANGED <<inputs, info, price, snapshot, valuation, pct, tag, page,
                   peers, crash, drop, sim, raised>>

StressOk ==
    /\ pc = "stress"
    /\ stress_event # "None"
    /\ stress_event \in DOMAIN evts
    /\ \E c \in Crashes :
         /\ crash' = c
         /\ ~(~c.empty /\ c.first = 0)
         /\ IF ~c.empty
            THEN /\ drop' = stress_drop(Num(c.first), Num(c.last))
                 /\ sim' = stress_sim(price, drop')
                 /\ Done("stress", Append(out, "stress"))
            ELSE /\ Done("stress", Append(out, "error_no_data"))
                 /\ UNCHANGED <<drop, sim>>
    /\ pc' = "done"
    /\ UNCHANGED <<inputs, info, price, snapshot, valuation, pct, tag, page,
                   peers, raised>>

\* drop=(p1-p0)/p0*100 on Python floats with p0 = 0.
StressRaiseZero ==
    /\ pc = "stress"
    /\ stress_event # "None"
    /\ \E c \in Crashes :
         /\ crash' = c
         /\ ~c.empty /\ c.first = 0
    /\ Except(out, ZeroDivisionError)
    /\ UNCHANGED <<inputs, info, price, snapshot, valuation, pct, tag, page,
                   peers, drop, sim, ran>>

\* yf.download itself fails.
StressRaiseDownload ==
    /\ pc = "stress"
    /\ stress_event # "None"
    /\ Except(out, ExternalError)
    /\ UNCHANGED <<inputs, info, price, snapshot, valuation, pct, tag, page,
                   peers, crash, drop, sim, ran>>

Next ==
    \/ Press
    \/ FetchOk \/ FetchRaise
    \/ RunDcfOk \/ RunDcfRaise
    \/ RunPeOk \/ RunPeRaise
    \/ RunDdm
    \/ Show
    \/ Chart
    \/ PeersOk \/ PeersRaise
    \/ StressNone \/ StressOk \/ StressRaiseZero \/ StressRaiseDownload

Spec == Init /\ [][Next]_vars

----------------------------------------------------------------------------
(* get_yahoo_peers alone, on every page within the bound *)

InitPeers ==
    /\ ticker \in Tickers
    /\ \/ \E k \in 0..MaxSyms : \E s \in [1..k -> Symbols] :
            InPeerOrder(s) /\ page = PageOf(s)
       \/ page = PageError
    /\ pc = "peers_call"
    /\ peers = <<>>
    /\ stress_event = "None" /\ model = "DCF" /\ df_fin = NoFile
    /\ DeriveHistory
    /\ revenue = None /\ ebit = None /\ cash = None /\ debt = None
    /\ shares = None /\ capex = None /\ dep = None /\ wc = None
    /\ revenue_growth = 10 /\ ebit_margin = 20 /\ terminal_growth = 3
    /\ tax_rate = 25 /\ discount_rate = 10 /\ forecast_years = 5
    /\ info = NoInfo /\ price = None
    /\ base = None /\ rows = <<>> /\ tv = None /\ dtv = None
    /\ ev = None /\ eqv = None /\ iv = None /\ pct = None /\ tag = ""
    /\ crash = NoCrash /\ drop = None /\ sim = None
    /\ out = <<>> /\ ran = <<>> /\ raised = NoError

CallPeers ==
    /\ pc = "peers_call"
    /\ peers' = get_yahoo_peers(ticker, page)
    /\ pc' = "peers_ret"
    /\ UNCHANGED <<inputs, info, price, snapshot, valuation, pct, tag, page,
                   crash, drop, sim, out, ran, raised>>

NextPeers == CallPeers

SpecPeers == InitPeers /\ [][NextPeers]_vars
----------------------------------------------------------------------------
(* Properties *)

IsError(k) == k \in {"error", "error_no_data"}

CountErrors(s) == Cardinality({i \in DOMAIN s : IsError(s[i])})

\* run_dcf has been entered in this press.
DcfEntered == model = "DCF" /\ base # None

\* C1: whenever discountRate <= terminalGrowthRate, the DCF terminal-value
\* step fails and neither terminal value, enterprise value, equity value nor
\* intrinsic value per share is produced.
C1_InvalidAssumptionsRejected ==
    (DcfEntered /\ discount_rate <= terminal_growth) =>
        /\ raised # NoError
        /\ tv = None /\ dtv = None /\ ev = None /\ eqv = None /\ iv = None

\* C2: whenever sharesOutstanding <= 0, the valuation fails instead of
\* dividing by the share count; no intrinsic value per share is returned or shown.
C2_NonPositiveSharesRejected ==
    (DcfEntered /\ ~Gt(shares, Zero)) =>
        /\ raised # NoError
        /\ iv = None
        /\ ~InSeq("iv", out)

\* C3: a DCF valuation is atomic: either the complete result is produced, or
\* it fails and none of its outputs (the cash-flow table included) is emitted.
C3_ValuationAtomic ==
    DcfEntered =>
        \/ /\ InSeq("valuate", ran)
           /\ Len(rows) = forecast_years
           /\ ev # None /\ eqv # None /\ iv # None
        \/ /\ ~InSeq("valuate", ran)
           /\ raised # NoError
           /\ ~InSeq("dcf_table", out)
           /\ ev = None /\ eqv = None /\ iv = None

\* The verdict of the specification, with its 10% fair-value band.
SpecVerdict(d) ==
    IF Lt(AbsQ(d), Num(10)) THEN "FairlyValued"
    ELSE IF Gt(d, Zero) THEN "Undervalued"
    ELSE "Overvalued"

\* C4: with percentDifference = (intrinsic - price)/price*100, the verdict is
\* FairlyValued when |percentDifference| < 10, otherwise Undervalued when it
\* is positive and Overvalued when negative; an intrinsic value equal to the
\* market price is never reported as Overvalued.
C4_VerdictHasFairBand ==
    (tag # "" /\ IsFinite(iv)) =>
        /\ Mul(pct, price) = Mul(Sub(iv, price), Hundred)
        /\ tag = SpecVerdict(pct)
        /\ (iv = price => tag # "Overvalued")

\* base = nopat + dep - capex - wc with nopat = e - e*taxRate/100.
BaseFrom(e) == Sub(Sub(Add(Sub(e, Mul(e, Norm(tax_rate, 100))), dep), capex), wc)

\* C5 as stated: the EBIT behind the base free cash flow is the snapshot's
\* own EBIT (that of the most recent uploaded year) whenever one is supplied,
\* and revenue * ebitMargin/100 only when none is.
C5_UsesSuppliedEbit ==
    DcfEntered =>
        base = BaseFrom(IF uploaded THEN Num(latest.EBIT)
                        ELSE Norm(revenue[1] * ebit_margin, revenue[2] * 100))

\* C5 as amended: the EBIT behind the base free cash flow is always
\* revenue * ebitMargin/100, an uploaded EBIT column notwithstanding, and
\* base = nopat + dep - capex - wc with nopat = ebit - ebit*taxRate/100.
C5_EbitFromMargin ==
    DcfEntered =>
        /\ ebit = Norm(revenue[1] * ebit_margin, revenue[2] * 100)
        /\ base = BaseFrom(ebit)

\* A DCF run on an upload whose latest EBIT is not margin x revenue.
C5_Witness ==
    DcfEntered /\ uploaded /\ Num(latest.EBIT) # ebit /\ InSeq("valuate", ran)

\* (1 + p/100)^k computed in one step.
Factor(p, k) == Norm((100 + p)^k, 100^k)

\* The enterprise value of the specification, from unrounded projections.
ExactTV == DivNp(Mul(Mul(base, Factor(revenue_growth, forecast_years)),
                     Factor(terminal_growth, 1)),
                 Norm(discount_rate - terminal_growth, 100))
ExactEV ==
    Add(SumSeq([y \in 1..forecast_years |->
                  DivNp(Mul(base, Factor(revenue_growth, y)), Factor(discount_rate, y))]),
        DivNp(ExactTV, Factor(discount_rate, forecast_years)))

\* C6: for valid input (discountRate > terminalGrowthRate, shares > 0) the
\* enterprise value is the sum of the exact discounted projections plus the
\* discounted terminal value of the exact year-N projection; equity value is
\* enterprise value + cash - debt; intrinsic value is equity value / shares.
\* Values rounded for display do not feed into the result.
C6_ExactArithmetic ==
    (DcfEntered /\ ev # None /\ discount_rate > terminal_growth /\ Gt(shares, Zero)) =>
        /\ tv = ExactTV
        /\ ev = ExactEV
        /\ eqv = Sub(Add(ev, cash), debt)
        /\ Mul(iv, shares) = eqv

\* C7: the stress test ends in an error message, with no percent drop and no
\* simulated price, whenever the event's price series is empty or starts at
\* 0; otherwise percentDrop = (end - start)/start*100 and
\* simulatedCurrentPrice = currentPrice*(1 + percentDrop/100).
C7_StressTest ==
    crash.fetched =>
        IF crash.empty \/ crash.first = 0
        THEN /\ out # <<>> /\ IsError(out[Len(out)])
             /\ drop = None /\ sim = None
             /\ ~InSeq("stress", out)
        ELSE /\ Mul(drop, Num(crash.first)) = Num((crash.last - crash.first) * 100)
             /\ Mul(sim, Hundred) = Mul(price, Add(Hundred, drop))
             /\ out[Len(out)] = "stress"
             /\ CountErrors(out) = 0

\* start=100, end=70, current=50 gives -30 and 35.
C7_Witness ==
    /\ crash = CrashOf(100, 70) /\ price = Num(50)
    /\ drop = Num(-30) /\ sim = Num(35)

\* C8: the projection has exactly forecastYears entries, years 1..N in order,
\* and each entry's projected value is derived from the base free cash flow
\* and its own year index alone: round(base*(1+g/100)^y, 2), likewise the
\* discounted value.
C8_ProjectionRows ==
    DcfEntered =>
        /\ forecast_years \in 1..10
        /\ Len(rows) = forecast_years
        /\ \A y \in 1..forecast_years :
             /\ rows[y][1] = y
             /\ rows[y][2] = Round2(Mul(base, Factor(revenue_growth, y)))
             /\ rows[y][3] = Round2(DivNp(Mul(base, Factor(revenue_growth, y)),
                                          Factor(discount_rate, y)))

\* A full-length projection in which an earlier year was rounded for display.
C8_Witness ==
    /\ DcfEntered /\ forecast_years >= 3 /\ Len(rows) = forecast_years
    /\ rows[1][2] # Mul(base, Factor(revenue_growth, 1))

IsPrefix(s, t) == Len(s) <= Len(t) /\ SubSeq(t, 1, Len(s)) = s

\* C9: the stages run in the order fetch, valuation, verdict, chart, peers,
\* stress test; once a stage raises, exactly one error message is on the page,
\* it is the last thing shown, and nothing runs after it; so a failed
\* valuation suppresses the stress test, and a stress event is never
\* evaluated before the valuation stage has completed.
C9_StageOrder ==
    /\ IsPrefix(ran, StageOrder)
    /\ raised # NoError =>
         /\ pc = "done"
         /\ ~ENABLED Next
         /\ CountErrors(out) = 1
         /\ out[Len(out)] = "error"
         /\ Len(ran) < Len(StageOrder)
    /\ (raised # NoError /\ ~InSeq("valuate", ran)) =>
         /\ crash = NoCrash /\ drop = None /\ sim = None
         /\ ~InSeq("stress", out)
    /\ crash.fetched => InSeq("valuate", ran) /\ InSeq("peers", ran)

\* The DCF division by zero with a stress event selected.
C9_Witness ==
    /\ raised = ZeroDivisionError /\ model = "DCF" /\ ~InSeq("valuate", ran)
    /\ InSeq("dcf_table", out)
    /\ stress_event # "None" /\ pc = "done"

FirstIndex(s, x) == CHOOSE i \in DOMAIN s : s[i] = x /\ \A j \in 1..(i - 1) : s[j] # x

\* C10: get_yahoo_peers returns at most 5 symbols, pairwise distinct, none
\* the queried ticker, each containing a '.', each found on the page, in
\* order of first occurrence; when the fetch raises it returns the empty list.
C10_Peers ==
    pc = "peers_ret" =>
        /\ Len(peers) <= 5
        /\ \A i, j \in DOMAIN peers : i # j => peers[i] # peers[j]
        /\ \A i \in DOMAIN peers :
             /\ peers[i] # ticker
             /\ \E k \in DOMAIN peers[i] : peers[i][k] = "."
             /\ \E k \in DOMAIN page.syms : page.syms[k] = peers[i]
        /\ \A i, j \in DOMAIN peers :
             i < j => FirstIndex(page.syms, peers[i]) < FirstIndex(page.syms, peers[j])
        /\ ~page.ok => peers = <<>>

\* Six distinct qualifying symbols on the page, five returned.
C10_Witness ==
    /\ pc = "peers_ret" /\ Len(peers) = 5
    /\ Cardinality({page.syms[k] : k \in DOMAIN page.syms} \cap DottedPeers) = 6
====
